---- MODULE Spec2Model ----
(***************************************************************************)
(* Model of axolotl.cli.preprocess.do_cli (src/src/axolotl/cli/            *)
(* preprocess.py): the preprocessing pipeline as a sequential state        *)
(* machine.  Every external call (config loader, environment checks,       *)
(* template registration, dataset loaders, converter, weight probe) is an  *)
(* opaque call that either returns or raises.  Strings that the code       *)
(* inspects (paths, messages) are sequences of one-character strings, so   *)
(* that endswith / rsplit / concatenation are computed, not assumed.       *)
(***************************************************************************)
EXTENDS Integers, Sequences, FiniteSets, TLC

VARIABLES
    pc,               \* position of do_cli
    config,           \* what load_cfg yields for this run (the input)
    parsed_cfg,       \* the mutable RunConfig, bound at line 39
    download,         \* parsed_cli_args.download, bound at line 44
    datasets_caching, \* the global caching flag of the datasets library
    scope_prior,      \* value saved by the caching-suppression scope
    trace,            \* external calls and log records, in program order
    exc,              \* "" or the callee whose exception left do_cli
    outcomes,         \* how each finished call ended: returned or raised
    registry,         \* ChatTemplateRegistry: what each template resolves to
    conv_pc,          \* position of ConverterToJsonl.convert
    source,           \* the tabular file convert reads: header and data rows
    written,          \* the lines convert has produced so far (not yet visible)
    target,           \* the target file as other programs see it
    dirs              \* the parent directory of the target

convVars == <<conv_pc, source, written, target, dirs>>

vars == <<pc, config, parsed_cfg, download, datasets_caching, scope_prior,
          trace, exc, outcomes, registry, convVars>>

----------------------------------------------------------------------------
(* Bounds *)

MaxDatasets == 2
MaxRows == 2
MaxRegistrations == 2

----------------------------------------------------------------------------
(* Strings *)

S_csv   == <<".", "c", "s", "v">>
S_jsonl == <<".", "j", "s", "o", "n", "l">>
S_slash == <<"/">>

\* axolotl.common.const.DEFAULT_DATASET_PREPARED_PATH ("last_run_prepared")
DEFAULT_DATASET_PREPARED_PATH ==
    <<"l","a","s","t","_","r","u","n","_","p","r","e","p","a","r","e","d">>

\* Python truthiness of a str / None value
Truthy(s) == s # <<>>

\* str.endswith
EndsWith(s, suffix) ==
    /\ Len(s) >= Len(suffix)
    /\ SubSeq(s, Len(s) - Len(suffix) + 1, Len(s)) = suffix

\* index of the last "." of s, 0 when there is none
LastDot(s) ==
    IF \E i \in 1..Len(s) : s[i] = "."
    THEN CHOOSE i \in 1..Len(s) :
            /\ s[i] = "."
            /\ \A j \in (i+1)..Len(s) : s[j] # "."
    ELSE 0

\* s.rsplit('.', 1)[0]
RSplitDotHead(s) ==
    IF LastDot(s) = 0 THEN s ELSE SubSeq(s, 1, LastDot(s) - 1)

\* line 85-88: the target path of the conversion
JsonlFile(cfg) ==
    cfg.dataset_prepared_path \o S_slash
        \o RSplitDotHead(cfg.datasets[1].path) \o S_jsonl

----------------------------------------------------------------------------
(* Inputs *)

FirstPaths ==
    { <<"a", ".", "c", "s", "v">>,
      <<"d", "/", "a", ".", "c", "s", "v">>,
      <<"/", "a", ".", "c", "s", "v">>,
      <<"a", ".", "b", ".", "c", "s", "v">>,
      <<".", "c", "s", "v">>,
      <<"a", ".", "j", "s", "o", "n">>,
      <<"a", "c", "s", "v">>,
      <<"a", ".", "c", "s", "v", ".", "g", "z">>,
      <<"a", ".", "C", "S", "V">> }

OtherPaths == { <<"b", ".", "c", "s", "v">>, <<"b">> }

Descriptor(p) == [path |-> p]

RECURSIVE Tails(_)
Tails(n) ==
    IF n = 0 THEN { <<>> }
    ELSE Tails(n - 1) \cup
         { <<Descriptor(p)>> \o t : p \in OtherPaths,
                                   t \in { u \in Tails(n - 1) : Len(u) = n - 1 } }

\* cfg.datasets: empty, or a first descriptor followed by up to MaxDatasets-1
DatasetSeqs ==
    { <<>> } \cup
    { <<Descriptor(p)>> \o t : p \in FirstPaths, t \in Tails(MaxDatasets - 1) }

ChatTemplates == { "chatml", "llama3", "ChatML", "llama3.1", "" }
SystemMessages == { <<>>, <<"m">> }
PreparedPaths == { <<>>, <<"p">> }
RlValues == { "", "dpo", "orpo" }
BaseModel == <<"b", "m">>

Configs ==
    [ chat_template : ChatTemplates,
      default_system_message : SystemMessages,
      dataset_prepared_path : PreparedPaths,
      datasets : DatasetSeqs,
      rl : RlValues,
      base_model : { BaseModel },
      is_preprocess : { FALSE },
      dataset_file : { <<>> } ]

\* parsed_cfg before line 39 has bound it
NoCfg ==
    [ chat_template |-> "", default_system_message |-> <<>>,
      dataset_prepared_path |-> <<>>, datasets |-> <<>>, rl |-> "",
      base_model |-> <<>>, is_preprocess |-> FALSE, dataset_file |-> <<>> ]

----------------------------------------------------------------------------
(* ChatTemplateRegistry (section 4.2) *)

Templates == { "chatml", "llama3" }

\* what a template resolves to when it is registered without a message
BuiltinSystemMessage == <<"d">>

EmptyRegistry ==
    [ t \in Templates |-> [registered |-> FALSE, system_message |-> <<>>] ]

\* register(name, default_system_message?): arg is the argument list
Register(reg, name, arg) ==
    [ reg EXCEPT ![name] =
        [ registered |-> TRUE,
          system_message |-> IF arg = <<>> THEN BuiltinSystemMessage
                             ELSE arg[1] ] ]

----------------------------------------------------------------------------
(* TabularToJsonlConverter (section 4.3) *)

Headers == { <<"prompt">>, <<"prompt", "response">> }
Cells == { "x", "y" }

RowsOf(header) == [ 1..Len(header) -> Cells ]

RECURSIVE RowSeqs(_, _)
RowSeqs(header, n) ==
    IF n = 0 THEN { <<>> }
    ELSE RowSeqs(header, n - 1) \cup
         { Append(rs, r) : rs \in { q \in RowSeqs(header, n - 1) : Len(q) = n - 1 },
                           r \in RowsOf(header) }

\* valid tables: every data row has one cell per header column
Tables ==
    UNION { [ header : {h}, rows : RowSeqs(h, MaxRows) ] : h \in Headers }

NoTable == [ header |-> <<>>, rows |-> <<>> ]
NoFile == [ exists |-> FALSE, lines |-> <<>> ]

\* one JSON line: the object of a row, as its ordered key/value pairs
Serialize(header, row) ==
    [ k \in 1..Len(header) |-> <<header[k], row[k]>> ]

----------------------------------------------------------------------------
(* Trace records *)

Event(fn, msg, arg) ==
    [ fn |-> fn, msg |-> msg, arg |-> arg,
      cfg |-> parsed_cfg, caching |-> datasets_caching ]

Called(fn) == \E i \in 1..Len(trace) : trace[i].fn = fn
Count(fn) == Cardinality({ i \in 1..Len(trace) : trace[i].fn = fn })
Logged(fn, msg) ==
    \E i \in 1..Len(trace) : trace[i].fn = fn /\ trace[i].msg = msg
CountLogged(fn, msg) ==
    Cardinality({ i \in 1..Len(trace) : trace[i].fn = fn /\ trace[i].msg = msg })
IndexOf(fn) == CHOOSE i \in 1..Len(trace) : trace[i].fn = fn

Outcome(fn, result) == [fn |-> fn, result |-> result]
Returned(fn) == Outcome(fn, "returned") \in outcomes
Raised(fn) == Outcome(fn, "raised") \in outcomes

\* a call that returns
Return(fn) == outcomes' = outcomes \cup { Outcome(fn, "returned") }

\* a call that raises with no handler around it: the exception leaves do_cli
Raise(fn) ==
    /\ outcomes' = outcomes \cup { Outcome(fn, "raised") }
    /\ pc' = "raised"
    /\ exc' = fn

----------------------------------------------------------------------------
Init ==
    /\ pc = "print_axolotl_text_art"
    /\ config \in Configs
    /\ parsed_cfg = NoCfg
    /\ download = FALSE
    /\ datasets_caching \in BOOLEAN
    /\ scope_prior = datasets_caching
    /\ trace = <<>>
    /\ exc = ""
    /\ outcomes = {}
    /\ registry = EmptyRegistry
    /\ conv_pc = "idle"
    /\ source = NoTable
    /\ written = <<>>
    /\ target = NoFile
    /\ dirs = "absent"

\* a callee that is invoked, returns, and leaves the config alone
CallReturns(fn, next) ==
    /\ trace' = Append(trace, Event(fn, "", <<>>))
    /\ Return(fn)
    /\ pc' = next
    /\ UNCHANGED <<convVars, registry, config, parsed_cfg, download, datasets_caching,
                   scope_prior, exc>>

\* the same callee raising: nothing in do_cli catches it
CallRaises(fn) ==
    /\ trace' = Append(trace, Event(fn, "", <<>>))
    /\ Raise(fn)
    /\ UNCHANGED <<convVars, registry, config, parsed_cfg, download, datasets_caching,
                   scope_prior>>

\* line 38
PrintArt ==
    /\ pc = "print_axolotl_text_art"
    /\ CallReturns("print_axolotl_text_art", "load_cfg")

PrintArtRaises ==
    /\ pc = "print_axolotl_text_art"
    /\ CallRaises("print_axolotl_text_art")

\* variant of LoadCfg: is_preprocess is left as the config file had it
LoadCfgNoFlag ==
    /\ pc = "load_cfg"
    /\ trace' = Append(trace, Event("load_cfg", "", <<>>))
    /\ parsed_cfg' = config
    /\ Return("load_cfg")
    /\ pc' = "check_accelerate_default_config"
    /\ UNCHANGED <<convVars, registry, config, download, datasets_caching, scope_prior, exc>>

\* lines 39-40: bind parsed_cfg and mark the run as a preprocessing run
LoadCfg ==
    /\ pc = "load_cfg"
    /\ trace' = Append(trace, Event("load_cfg", "", <<>>))
    /\ parsed_cfg' = [config EXCEPT !.is_preprocess = TRUE]
    /\ Return("load_cfg")
    /\ pc' = "check_accelerate_default_config"
    /\ UNCHANGED <<convVars, registry, config, download, datasets_caching, scope_prior, exc>>

\* line 39: load_cfg raises
LoadCfgRaises ==
    /\ pc = "load_cfg"
    /\ CallRaises("load_cfg")

\* line 41
CheckAccelerate ==
    /\ pc = "check_accelerate_default_config"
    /\ CallReturns("check_accelerate_default_config", "check_user_token")

CheckAccelerateRaises ==
    /\ pc = "check_accelerate_default_config"
    /\ CallRaises("check_accelerate_default_config")

\* line 42
CheckUserToken ==
    /\ pc = "check_user_token"
    /\ CallReturns("check_user_token", "parse_args")

CheckUserTokenRaises ==
    /\ pc = "check_user_token"
    /\ CallRaises("check_user_token")

\* lines 43-46: parsed_cli_args.download is whatever the command line says
ParseArgs ==
    /\ pc = "parse_args"
    /\ trace' = Append(trace, Event("parse_args_into_dataclasses", "", <<>>))
    /\ download' \in BOOLEAN
    /\ Return("parse_args_into_dataclasses")
    /\ pc' = "register_template"
    /\ UNCHANGED <<convVars, registry, config, parsed_cfg, datasets_caching, scope_prior, exc>>

\* lines 43-46: the argument parser raises
ParseArgsRaises ==
    /\ pc = "parse_args"
    /\ CallRaises("parse_args_into_dataclasses")

\* lines 48-63: the registration function selected by chat_template, "" if none
RegisterFn(cfg) ==
    IF cfg.chat_template = "chatml" THEN "register_chatml_template"
    ELSE IF cfg.chat_template = "llama3" THEN "register_llama3_template"
    ELSE ""

\* variant of RegisterEvents: the message is passed even when it is empty
RegisterEventsAlwaysArg(cfg) ==
    << Event(RegisterFn(cfg), "", <<cfg.default_system_message>>) >>

\* lines 49-55 / 57-63: the log record and the call made for a recognised name
RegisterEvents(cfg) ==
    IF Truthy(cfg.default_system_message)
    THEN << Event("LOG.info", "Adding default system message",
                  <<cfg.default_system_message>>),
            Event(RegisterFn(cfg), "", <<cfg.default_system_message>>) >>
    ELSE << Event(RegisterFn(cfg), "", <<>>) >>

\* variant of RegisterTemplate: the call is made without the message
RegisterTemplateDropsMessage ==
    /\ pc = "register_template"
    /\ trace' = IF RegisterFn(parsed_cfg) # ""
                THEN trace \o RegisterEvents(parsed_cfg)
                ELSE trace
    /\ outcomes' = IF RegisterFn(parsed_cfg) # ""
                   THEN outcomes \cup { Outcome(RegisterFn(parsed_cfg), "returned") }
                   ELSE outcomes
    /\ registry' = IF RegisterFn(parsed_cfg) # ""
                   THEN Register(registry, parsed_cfg.chat_template, <<>>)
                   ELSE registry
    /\ pc' = "default_path"
    /\ UNCHANGED <<convVars, config, parsed_cfg, download, datasets_caching,
                   scope_prior, exc>>

\* lines 48-63, the registration (if any) returns
RegisterTemplate ==
    /\ pc = "register_template"
    /\ trace' = IF RegisterFn(parsed_cfg) # ""
                THEN trace \o RegisterEvents(parsed_cfg)
                ELSE trace
    /\ outcomes' = IF RegisterFn(parsed_cfg) # ""
                   THEN outcomes \cup { Outcome(RegisterFn(parsed_cfg), "returned") }
                   ELSE outcomes
    /\ registry' = IF RegisterFn(parsed_cfg) # ""
                   THEN Register(registry, parsed_cfg.chat_template,
                                 RegisterEvents(parsed_cfg)
                                     [Len(RegisterEvents(parsed_cfg))].arg)
                   ELSE registry
    /\ pc' = "default_path"
    /\ UNCHANGED <<convVars, config, parsed_cfg, download, datasets_caching,
                   scope_prior, exc>>

\* lines 53, 55, 61, 63: the registration call raises
RegisterTemplateRaises ==
    /\ pc = "register_template"
    /\ RegisterFn(parsed_cfg) # ""
    /\ trace' = trace \o RegisterEvents(parsed_cfg)
    /\ Raise(RegisterFn(parsed_cfg))
    /\ UNCHANGED <<convVars, registry, config, parsed_cfg, download, datasets_caching,
                   scope_prior>>

\* variant of DefaultPath: the warning is logged but the default not assigned
DefaultPathWarnOnly ==
    /\ pc = "default_path"
    /\ IF ~Truthy(parsed_cfg.dataset_prepared_path)
       THEN trace' = Append(trace,
                   Event("LOG.warning", "using default path",
                         <<DEFAULT_DATASET_PREPARED_PATH>>))
       ELSE UNCHANGED trace
    /\ pc' = "disable_datasets_caching"
    /\ UNCHANGED <<convVars, registry, config, parsed_cfg, download, datasets_caching,
                   scope_prior, exc, outcomes>>

\* variant of DefaultPath: the default is assigned whatever the config says
DefaultPathAlways ==
    /\ pc = "default_path"
    /\ trace' = IF ~Truthy(parsed_cfg.dataset_prepared_path)
                THEN Append(trace,
                       Event("LOG.warning", "using default path",
                             <<DEFAULT_DATASET_PREPARED_PATH>>))
                ELSE trace
    /\ parsed_cfg' = [parsed_cfg EXCEPT
           !.dataset_prepared_path = DEFAULT_DATASET_PREPARED_PATH]
    /\ pc' = "disable_datasets_caching"
    /\ UNCHANGED <<convVars, registry, config, download, datasets_caching, scope_prior, exc,
                   outcomes>>

\* lines 65-73
DefaultPath ==
    /\ pc = "default_path"
    /\ IF ~Truthy(parsed_cfg.dataset_prepared_path)
       THEN /\ trace' = Append(trace,
                   Event("LOG.warning", "using default path",
                         <<DEFAULT_DATASET_PREPARED_PATH>>))
            /\ parsed_cfg' = [parsed_cfg EXCEPT
                   !.dataset_prepared_path = DEFAULT_DATASET_PREPARED_PATH]
       ELSE UNCHANGED <<trace, parsed_cfg>>
    /\ pc' = "disable_datasets_caching"
    /\ UNCHANGED <<convVars, registry, config, download, datasets_caching, scope_prior, exc,
                   outcomes>>

\* disable_datasets_caching().__enter__: remember the flag and clear it
ScopeEnter ==
    /\ scope_prior' = datasets_caching
    /\ datasets_caching' = FALSE

\* disable_datasets_caching().__exit__: put the remembered value back
ScopeExit ==
    /\ datasets_caching' = scope_prior
    /\ scope_prior' = scope_prior

\* variant of EnterScope: the loader is called outside any scope
EnterScopeSkipped ==
    /\ pc = "disable_datasets_caching"
    /\ trace' = Append(trace, Event("disable_datasets_caching", "", <<>>))
    /\ pc' = "loader"
    /\ UNCHANGED <<convVars, registry, config, parsed_cfg, download, datasets_caching,
                   scope_prior, exc, outcomes>>

\* line 75: the with statement enters the scope
EnterScope ==
    /\ pc = "disable_datasets_caching"
    /\ trace' = Append(trace, Event("disable_datasets_caching", "", <<>>))
    /\ ScopeEnter
    /\ pc' = "loader"
    /\ UNCHANGED <<convVars, registry, config, parsed_cfg, download, exc, outcomes>>

\* variant of LoaderFn: the branch also tests rl != "orpo"
LoaderFnExceptOrpo(cfg) ==
    IF cfg.rl # "" /\ cfg.rl # "orpo" THEN "load_rl_datasets" ELSE "load_datasets"

\* line 76: which loader the branch selects
LoaderFn(cfg) ==
    IF cfg.rl # "" THEN "load_rl_datasets" ELSE "load_datasets"

\* lines 76-79: the selected loader is invoked with the config
InvokeLoader ==
    /\ pc = "loader"
    /\ trace' = Append(trace, Event(LoaderFn(parsed_cfg), "", <<>>))
    /\ pc' = "loader_running"
    /\ UNCHANGED <<convVars, registry, config, parsed_cfg, download, datasets_caching,
                   scope_prior, exc, outcomes>>

\* lines 75-79: the loader returns and the with statement leaves the scope
LoaderReturns ==
    /\ pc = "loader_running"
    /\ Return(LoaderFn(parsed_cfg))
    /\ ScopeExit
    /\ pc' = "convert_guard"
    /\ UNCHANGED <<convVars, registry, config, parsed_cfg, download, trace, exc>>

\* variant of LoaderRaises: the scope is not left when the body raises
LoaderRaisesNoExit ==
    /\ pc = "loader_running"
    /\ Raise(LoaderFn(parsed_cfg))
    /\ UNCHANGED <<convVars, registry, config, parsed_cfg, download, datasets_caching,
                   scope_prior, trace>>

\* lines 75-79: the loader raises; the with statement leaves the scope and
\* the exception goes on
LoaderRaises ==
    /\ pc = "loader_running"
    /\ ScopeExit
    /\ Raise(LoaderFn(parsed_cfg))
    /\ UNCHANGED <<convVars, registry, config, parsed_cfg, download, trace>>

\* lines 81-83: the condition of the conversion step; evaluating it needs
\* datasets[0] unless dataset_prepared_path is falsy (short circuit)
GuardReadsFirst(cfg) == Truthy(cfg.dataset_prepared_path)
\* variant of ConvertTriggered: the extension is matched without its dot
ConvertTriggeredNoDot(cfg) ==
    /\ Truthy(cfg.dataset_prepared_path)
    /\ EndsWith(cfg.datasets[1].path, <<"c", "s", "v">>)

ConvertTriggered(cfg) ==
    /\ Truthy(cfg.dataset_prepared_path)
    /\ EndsWith(cfg.datasets[1].path, S_csv)

\* line 81: datasets[0] of an empty sequence raises IndexError
ConvertGuardRaises ==
    /\ pc = "convert_guard"
    /\ GuardReadsFirst(parsed_cfg)
    /\ parsed_cfg.datasets = <<>>
    /\ Raise("datasets[0]")
    /\ UNCHANGED <<convVars, registry, config, parsed_cfg, download, datasets_caching,
                   scope_prior, trace>>

\* variant of ConvertSkipped: an empty datasets sequence skips the step
ConvertSkippedIfEmpty ==
    /\ pc = "convert_guard"
    /\ \/ parsed_cfg.datasets = <<>>
       \/ parsed_cfg.datasets # <<>> /\ ~ConvertTriggered(parsed_cfg)
    /\ pc' = "download_guard"
    /\ UNCHANGED <<convVars, registry, config, parsed_cfg, download, datasets_caching,
                   scope_prior, trace, exc, outcomes>>

\* lines 81-83: the condition is false, the conversion step is skipped
ConvertSkipped ==
    /\ pc = "convert_guard"
    /\ GuardReadsFirst(parsed_cfg) => parsed_cfg.datasets # <<>>
    /\ ~ConvertTriggered(parsed_cfg)
    /\ pc' = "download_guard"
    /\ UNCHANGED <<convVars, registry, config, parsed_cfg, download, datasets_caching,
                   scope_prior, trace, exc, outcomes>>

\* lines 84-92: the paths are computed, logged, and convert is invoked
InvokeConvert ==
    /\ pc = "convert_guard"
    /\ GuardReadsFirst(parsed_cfg) => parsed_cfg.datasets # <<>>
    /\ ConvertTriggered(parsed_cfg)
    /\ trace' = trace \o
         << Event("LOG.info", "Converting",
                  <<parsed_cfg.datasets[1].path, JsonlFile(parsed_cfg)>>),
            Event("ConverterToJsonl.convert", "",
                  <<parsed_cfg.datasets[1].path, JsonlFile(parsed_cfg)>>) >>
    /\ pc' = "converting"
    /\ UNCHANGED <<convVars, registry, config, parsed_cfg, download, datasets_caching,
                   scope_prior, exc, outcomes>>

\* variant of ConvertReturns: the artifact path is written to datasets[0].path
ConvertReturnsRewritesPath ==
    /\ pc = "converting"
    /\ Return("ConverterToJsonl.convert")
    /\ parsed_cfg' = [parsed_cfg EXCEPT
           !.datasets[1].path = JsonlFile(parsed_cfg)]
    /\ pc' = "download_guard"
    /\ UNCHANGED <<convVars, registry, config, download, datasets_caching, scope_prior, trace,
                   exc>>

\* lines 92-93: convert returns and dataset_file is assigned
ConvertReturns ==
    /\ pc = "converting"
    /\ Return("ConverterToJsonl.convert")
    /\ parsed_cfg' = [parsed_cfg EXCEPT !.dataset_file = JsonlFile(parsed_cfg)]
    /\ pc' = "download_guard"
    /\ UNCHANGED <<convVars, registry, config, download, datasets_caching, scope_prior, trace,
                   exc>>

\* variant of ConvertRaises: a handler around convert discards the error
ConvertRaisesSwallowed ==
    /\ pc = "converting"
    /\ outcomes' = outcomes \cup { Outcome("ConverterToJsonl.convert", "raised") }
    /\ pc' = "download_guard"
    /\ UNCHANGED <<convVars, registry, config, parsed_cfg, download, datasets_caching,
                   scope_prior, trace, exc>>

\* line 92: convert raises
ConvertRaises ==
    /\ pc = "converting"
    /\ Raise("ConverterToJsonl.convert")
    /\ UNCHANGED <<convVars, registry, config, parsed_cfg, download, datasets_caching,
                   scope_prior, trace>>

\* line 95, download falsy: the probe block is skipped
ProbeSkipped ==
    /\ pc = "download_guard"
    /\ ~download
    /\ pc' = "success"
    /\ UNCHANGED <<convVars, registry, config, parsed_cfg, download, datasets_caching,
                   scope_prior, trace, exc, outcomes>>

\* variant of InvokeProbe: the probe does not depend on the download flag
InvokeProbeAlways ==
    /\ pc = "download_guard"
    /\ trace' = Append(trace,
           Event("AutoModelForCausalLM.from_pretrained", "",
                 <<parsed_cfg.base_model>>))
    /\ pc' = "probing"
    /\ UNCHANGED <<convVars, registry, config, parsed_cfg, download, datasets_caching,
                   scope_prior, exc, outcomes>>

\* lines 95-106: from_pretrained is invoked on cfg.base_model
InvokeProbe ==
    /\ pc = "download_guard"
    /\ download
    /\ trace' = Append(trace,
           Event("AutoModelForCausalLM.from_pretrained", "",
                 <<parsed_cfg.base_model>>))
    /\ pc' = "probing"
    /\ UNCHANGED <<convVars, registry, config, parsed_cfg, download, datasets_caching,
                   scope_prior, exc, outcomes>>

\* lines 104-106: the probe returns
ProbeReturns ==
    /\ pc = "probing"
    /\ Return("AutoModelForCausalLM.from_pretrained")
    /\ pc' = "success"
    /\ UNCHANGED <<convVars, registry, config, parsed_cfg, download, datasets_caching,
                   scope_prior, trace, exc>>

\* variant of ProbeRaises: no handler, the probe's exception leaves do_cli
ProbeRaisesPropagates ==
    /\ pc = "probing"
    /\ Raise("AutoModelForCausalLM.from_pretrained")
    /\ UNCHANGED <<convVars, registry, config, parsed_cfg, download, datasets_caching,
                   scope_prior, trace>>

\* lines 107-108: the probe raises an Exception, which the handler discards
ProbeRaises ==
    /\ pc = "probing"
    /\ outcomes' = outcomes \cup
           { Outcome("AutoModelForCausalLM.from_pretrained", "raised") }
    /\ pc' = "success"
    /\ UNCHANGED <<convVars, registry, config, parsed_cfg, download, datasets_caching,
                   scope_prior, trace, exc>>

\* lines 111-115: the terminal report, then do_cli returns
Success ==
    /\ pc = "success"
    /\ trace' = Append(trace,
           Event("LOG.info", "Success!", <<parsed_cfg.dataset_prepared_path>>))
    /\ pc' = "done"
    /\ UNCHANGED <<convVars, registry, config, parsed_cfg, download, datasets_caching,
                   scope_prior, exc, outcomes>>

Next ==
    \/ PrintArt \/ PrintArtRaises
    \/ LoadCfg \/ LoadCfgRaises
    \/ CheckAccelerate \/ CheckAccelerateRaises
    \/ CheckUserToken \/ CheckUserTokenRaises
    \/ ParseArgs \/ ParseArgsRaises
    \/ RegisterTemplate \/ RegisterTemplateRaises
    \/ DefaultPath
    \/ EnterScope
    \/ InvokeLoader \/ LoaderReturns \/ LoaderRaises
    \/ ConvertGuardRaises \/ ConvertSkipped \/ InvokeConvert
    \/ ConvertReturns \/ ConvertRaises
    \/ ProbeSkipped \/ InvokeProbe \/ ProbeReturns \/ ProbeRaises
    \/ Success

Spec == Init /\ [][Next]_vars

----------------------------------------------------------------------------
(* The registration of the run performed again, after do_cli is over *)

RegisterAgain ==
    /\ pc \in { "done", "raised" }
    /\ RegisterFn(parsed_cfg) # ""
    /\ Returned(RegisterFn(parsed_cfg))
    /\ Count(RegisterFn(parsed_cfg)) < MaxRegistrations
    /\ trace' = Append(trace, trace[IndexOf(RegisterFn(parsed_cfg))])
    /\ registry' = Register(registry, parsed_cfg.chat_template,
                            trace[IndexOf(RegisterFn(parsed_cfg))].arg)
    /\ UNCHANGED <<convVars, config, parsed_cfg, download, datasets_caching,
                   scope_prior, exc, outcomes, pc>>

NextRegistry == Next \/ RegisterAgain

SpecRegistry == Init /\ [][NextRegistry]_vars

----------------------------------------------------------------------------
(* ConverterToJsonl.convert(source, target), called from line 92 *)

mainVars == <<pc, config, parsed_cfg, download, datasets_caching, scope_prior,
              trace, exc, outcomes, registry>>

InitConvert ==
    /\ pc = "converting"
    /\ config = NoCfg
    /\ parsed_cfg = NoCfg
    /\ download = FALSE
    /\ datasets_caching = TRUE
    /\ scope_prior = TRUE
    /\ trace = <<>>
    /\ exc = ""
    /\ outcomes = {}
    /\ registry = EmptyRegistry
    /\ conv_pc = "start"
    /\ source \in Tables
    /\ written = <<>>
    /\ target = NoFile
    /\ dirs \in { "absent", "present" }

\* the source is opened and its header row read
ConvOpen ==
    /\ conv_pc = "start"
    /\ conv_pc' = "rows"
    /\ UNCHANGED <<mainVars, source, written, target, dirs>>

\* the source cannot be opened
ConvOpenFails ==
    /\ conv_pc = "start"
    /\ conv_pc' = "failed"
    /\ UNCHANGED <<mainVars, source, written, target, dirs>>

\* variant of ConvRow: each line goes straight into the target file
ConvRowDirect ==
    /\ conv_pc = "rows"
    /\ Len(written) < Len(source.rows)
    /\ written' = Append(written,
           Serialize(source.header, source.rows[Len(written) + 1]))
    /\ target' = [exists |-> TRUE, lines |-> written']
    /\ UNCHANGED <<mainVars, conv_pc, source, dirs>>

\* variant of ConvRow: the new line is put in front of the earlier ones
ConvRowPrepends ==
    /\ conv_pc = "rows"
    /\ Len(written) < Len(source.rows)
    /\ written' = <<Serialize(source.header, source.rows[Len(written) + 1])>>
                      \o written
    /\ UNCHANGED <<mainVars, conv_pc, source, target, dirs>>

\* the next data row is parsed, serialized and written as one line
ConvRow ==
    /\ conv_pc = "rows"
    /\ Len(written) < Len(source.rows)
    /\ written' = Append(written,
           Serialize(source.header, source.rows[Len(written) + 1]))
    /\ UNCHANGED <<mainVars, conv_pc, source, target, dirs>>

\* the next data row cannot be parsed, or its line cannot be written
ConvRowFails ==
    /\ conv_pc = "rows"
    /\ Len(written) < Len(source.rows)
    /\ conv_pc' = "failed"
    /\ UNCHANGED <<mainVars, source, written, target, dirs>>

\* all rows are written: the parent directory is created if absent and the
\* lines become the target file in one step; convert returns
ConvCommit ==
    /\ conv_pc = "rows"
    /\ Len(written) = Len(source.rows)
    /\ target' = [exists |-> TRUE, lines |-> written]
    /\ dirs' = IF dirs = "absent" THEN "created" ELSE dirs
    /\ conv_pc' = "returned"
    /\ UNCHANGED <<mainVars, source, written>>

\* the target cannot be written
ConvCommitFails ==
    /\ conv_pc = "rows"
    /\ Len(written) = Len(source.rows)
    /\ conv_pc' = "failed"
    /\ UNCHANGED <<mainVars, source, written, target, dirs>>

NextConvert ==
    \/ ConvOpen \/ ConvOpenFails
    \/ ConvRow \/ ConvRowFails
    \/ ConvCommit \/ ConvCommitFails

SpecConvert == InitConvert /\ [][NextConvert]_vars

----------------------------------------------------------------------------
(* Vocabulary of the properties *)

Loaders == { "load_datasets", "load_rl_datasets" }
RegisterFns == { "register_chatml_template", "register_llama3_template" }
Probe == "AutoModelForCausalLM.from_pretrained"
Convert == "ConverterToJsonl.convert"

\* the callees of do_cli whose exception nothing catches
FatalCallees ==
    { "print_axolotl_text_art", "load_cfg", "check_accelerate_default_config",
      "check_user_token", "parse_args_into_dataclasses", Convert }
        \cup RegisterFns \cup Loaders

SuccessReported == Logged("LOG.info", "Success!")
LastCall == trace[Len(trace)].fn

----------------------------------------------------------------------------
\* C1: if load_cfg, an environment check, a template registration, a
\* dataset loader or ConverterToJsonl.convert raises, the exception leaves
\* do_cli, the raising call is the last call of the run (no later step is
\* invoked; after a failed environment check no loader is ever called), and
\* the 'Success!' report is never emitted.
C1_FailFast ==
    \A f \in FatalCallees :
        Raised(f) =>
            /\ pc = "raised"
            /\ exc = f
            /\ LastCall = f
            /\ ~SuccessReported
            /\ f \in { "check_accelerate_default_config", "check_user_token" }
                  => \A l \in Loaders : ~Called(l)

\* a run in which convert raised after materialization had succeeded
C1_Witness ==
    /\ Raised(Convert)
    /\ \E l \in Loaders : Returned(l)
    /\ pc = "raised"

\* C2: with download true, an error raised by from_pretrained is swallowed:
\* no exception leaves do_cli, the probe was invoked once only, the run goes
\* on to the success report and has emitted it when do_cli returns.
C2_ProbeErrorSwallowed ==
    Raised(Probe) =>
        /\ download
        /\ exc = ""
        /\ Count(Probe) = 1
        /\ pc \in { "success", "done" }
        /\ pc = "success" => ENABLED Success
        /\ pc = "done" => SuccessReported /\ LastCall = "LOG.info"

\* a finished run whose probe raised
C2_Witness ==
    /\ Raised(Probe)
    /\ pc = "done"
    /\ SuccessReported

\* C3: once the caching-suppression scope has been left, by the loader
\* returning or by the loader raising, the caching flag has the value it had
\* when the scope was entered, whichever value that was.
ScopeLeft ==
    /\ Called("disable_datasets_caching")
    /\ pc \notin { "loader", "loader_running" }

C3_CachingRestored ==
    ScopeLeft =>
        datasets_caching = trace[IndexOf("disable_datasets_caching")].caching

\* the loader raised in a run that started with caching enabled
C3_Witness ==
    /\ \E l \in Loaders : Raised(l)
    /\ trace[IndexOf("disable_datasets_caching")].caching = TRUE
    /\ datasets_caching = TRUE

----------------------------------------------------------------------------
\* the first dataset descriptor of a config names a .csv file
FirstIsCsv(cfg) ==
    /\ cfg.datasets # <<>>
    /\ EndsWith(cfg.datasets[1].path, S_csv)

\* parsed_cfg has been bound (line 39 has returned)
CfgBound == Returned("load_cfg")

\* C4: when the first dataset's path ends in .csv, no consumer of the
\* config (load_datasets / load_rl_datasets) is handed the config before
\* ConverterToJsonl.convert has completed.
C4_ConvertBeforeLoader ==
    \A i \in 1..Len(trace) :
        (trace[i].fn \in Loaders /\ FirstIsCsv(trace[i].cfg)) =>
            \E j \in 1..(i - 1) : trace[j].fn = Convert

\* C5: after a conversion that triggered and succeeded, the path of the
\* first dataset descriptor names the .jsonl artifact and the config no
\* longer refers to the .csv file.
C5_PathRewritten ==
    Returned(Convert) =>
        /\ parsed_cfg.datasets[1].path = trace[IndexOf(Convert)].arg[2]
        /\ ~EndsWith(parsed_cfg.datasets[1].path, S_csv)

\* C6: at the call of either loader dataset_prepared_path is non-empty; an
\* empty input path has been replaced by DEFAULT_DATASET_PREPARED_PATH with
\* exactly one warning logged, a supplied path is passed as it is, and the
\* fill-in step cannot fail.
C6_PreparedPathSet ==
    /\ \A i \in 1..Len(trace) :
          trace[i].fn \in Loaders =>
            /\ Truthy(trace[i].cfg.dataset_prepared_path)
            /\ IF Truthy(config.dataset_prepared_path)
               THEN /\ trace[i].cfg.dataset_prepared_path
                         = config.dataset_prepared_path
                    /\ ~Called("LOG.warning")
               ELSE /\ trace[i].cfg.dataset_prepared_path
                         = DEFAULT_DATASET_PREPARED_PATH
                    /\ Count("LOG.warning") = 1
                    /\ IndexOf("LOG.warning") < i
    /\ pc = "default_path" => ENABLED DefaultPath

\* a loader was invoked in a run whose config had no dataset_prepared_path
C6_Witness ==
    /\ ~Truthy(config.dataset_prepared_path)
    /\ \E l \in Loaders : Called(l)
    /\ parsed_cfg.dataset_prepared_path = DEFAULT_DATASET_PREPARED_PATH

\* step 5 has been reached and its call made
LoaderInvoked ==
    \/ pc \in { "loader_running", "convert_guard", "converting",
                "download_guard", "probing", "success", "done" }
    \/ pc = "raised" /\ exc \in Loaders \cup { "datasets[0]", Convert }

\* C7: in a run that reached step 5 exactly one loader call was made:
\* load_rl_datasets when cfg.rl is truthy, load_datasets otherwise; no run
\* calls both or calls one twice.
C7_LoaderExclusive ==
    /\ Count("load_datasets") + Count("load_rl_datasets") <= 1
    /\ LoaderInvoked =>
          /\ Count("load_datasets") + Count("load_rl_datasets") = 1
          /\ Called("load_rl_datasets") <=> config.rl # ""
          /\ Called("load_datasets") <=> config.rl = ""

\* a finished run on the rl branch with a non-default rl value
C7_Witness ==
    /\ pc = "done"
    /\ config.rl = "orpo"
    /\ Called("load_rl_datasets")

\* C8: when the first dataset's path does not end in .csv, convert is never
\* invoked and the run leaves datasets and dataset_file as load_cfg gave them.
C8_NoConversion ==
    (CfgBound /\ config.datasets # <<>> /\ ~FirstIsCsv(config)) =>
        /\ ~Called(Convert)
        /\ parsed_cfg.datasets = config.datasets
        /\ parsed_cfg.dataset_file = config.dataset_file

\* a finished run whose first path has csv in it but not as its extension
C8_Witness ==
    /\ pc = "done"
    /\ config.datasets # <<>>
    /\ config.datasets[1].path = <<"a", "c", "s", "v">>
    /\ ~Called(Convert)

\* C9: from_pretrained is invoked only when download is true, and then only
\* after the loader has returned and, if the conversion triggered, after
\* convert has returned; with download false it is never invoked.
C9_ProbeOnlyOnDownload ==
    /\ Called(Probe) =>
          /\ download
          /\ \E l \in Loaders : Returned(l)
          /\ FirstIsCsv(config) => Returned(Convert)
          /\ \A f \in FatalCallees : ~Raised(f)
    /\ (pc \in { "success", "done" } /\ ~download) => ~Called(Probe)

\* the probe was invoked after a conversion
C9_Witness ==
    /\ Called(Probe)
    /\ Returned(Convert)
    /\ download

\* step 3 is over: it made its call, or had none to make
RegistrationOver ==
    /\ Returned("parse_args_into_dataclasses")
    /\ pc # "register_template"

\* C10: register_chatml_template is invoked iff chat_template is exactly
\* "chatml" and register_llama3_template iff it is exactly "llama3", at most
\* one registration call per run; the call's argument is
\* default_system_message when that is non-empty and is absent otherwise;
\* any other chat_template causes no registration and no error.
C10_RegistrationDispatch ==
    /\ Count("register_chatml_template") + Count("register_llama3_template") <= 1
    /\ Called("register_chatml_template") => config.chat_template = "chatml"
    /\ Called("register_llama3_template") => config.chat_template = "llama3"
    /\ RegistrationOver =>
          /\ config.chat_template = "chatml" => Called("register_chatml_template")
          /\ config.chat_template = "llama3" => Called("register_llama3_template")
    /\ \A i \in 1..Len(trace) :
          trace[i].fn \in RegisterFns =>
              trace[i].arg = IF config.default_system_message # <<>>
                             THEN <<config.default_system_message>>
                             ELSE <<>>
    /\ (pc = "register_template"
          /\ config.chat_template \notin { "chatml", "llama3" }) =>
              /\ ENABLED RegisterTemplate
              /\ ~ENABLED RegisterTemplateRaises

\* llama3 was registered without a message
C10_Witness ==
    /\ Called("register_llama3_template")
    /\ config.default_system_message = <<>>
    /\ pc = "default_path"

----------------------------------------------------------------------------
\* the pipeline step (section 4.1 numbering; 0 for an unknown record) a trace
\* record belongs to
StepOf(e) ==
    CASE e.fn \in { "print_axolotl_text_art", "load_cfg" } -> 1
      [] e.fn \in { "check_accelerate_default_config", "check_user_token",
                    "parse_args_into_dataclasses" } -> 2
      [] e.fn \in RegisterFns -> 3
      [] e.fn = "LOG.info" /\ e.msg = "Adding default system message" -> 3
      [] e.fn = "LOG.warning" -> 4
      [] e.fn = "disable_datasets_caching" \/ e.fn \in Loaders -> 5
      [] e.fn = Convert -> 6
      [] e.fn = "LOG.info" /\ e.msg = "Converting" -> 6
      [] e.fn = Probe -> 7
      [] e.fn = "LOG.info" /\ e.msg = "Success!" -> 8
      [] OTHER -> 0

\* C11: the calls of a run occur in the order of the steps: is_preprocess
\* set, environment checks, template registration, default path fill-in,
\* materialization, conversion, weight probe, success report.  is_preprocess
\* is true at every call after load_cfg, in particular at the loader call;
\* convert is invoked only after the loader has returned; the success report
\* is the last record of the run.
C11_FixedOrder ==
    /\ \A i, j \in 1..Len(trace) :
          i < j => /\ StepOf(trace[i]) >= 1
                   /\ StepOf(trace[i]) <= StepOf(trace[j])
    /\ \A i \in 1..Len(trace) :
          trace[i].fn # "print_axolotl_text_art" /\ trace[i].fn # "load_cfg"
              => trace[i].cfg.is_preprocess
    /\ \A i \in 1..Len(trace) :
          trace[i].fn = "check_user_token" =>
              i > 1 /\ trace[i - 1].fn = "check_accelerate_default_config"
    /\ Called(Convert) => \E l \in Loaders : Returned(l)
    /\ SuccessReported <=> pc = "done"
    /\ SuccessReported => StepOf(trace[Len(trace)]) = 8

\* a finished run that went through every optional step
C11_Witness ==
    /\ pc = "done"
    /\ Called("register_chatml_template")
    /\ Called("LOG.warning")
    /\ Returned(Convert)
    /\ Called(Probe)

----------------------------------------------------------------------------
\* the last index of "/" in s, 0 when there is none
LastSlash(s) ==
    IF \E i \in 1..Len(s) : s[i] = "/"
    THEN CHOOSE i \in 1..Len(s) :
            /\ s[i] = "/"
            /\ \A j \in (i+1)..Len(s) : s[j] # "/"
    ELSE 0

\* the file name of a path without its directories and its last extension
Stem(s) == RSplitDotHead(SubSeq(s, LastSlash(s) + 1, Len(s)))

\* C14: for every source path ending in .csv the target handed to convert
\* is <dataset_prepared_path>/<stem>.jsonl, the stem being the file name
\* without directory components and without its extension.
C14_ArtifactPath ==
    \A i \in 1..Len(trace) :
        trace[i].fn = Convert =>
            trace[i].arg[2] =
                trace[i].cfg.dataset_prepared_path \o S_slash
                    \o Stem(trace[i].arg[1]) \o S_jsonl

----------------------------------------------------------------------------
\* C16: while load_datasets or load_rl_datasets executes the caching flag
\* is false, and a loader is only ever invoked between the entry to and the
\* exit from the caching-suppression scope.
C16_CachingOffInLoader ==
    /\ pc = "loader_running" => ~datasets_caching
    /\ \A i \in 1..Len(trace) :
          trace[i].fn \in Loaders =>
              /\ ~trace[i].caching
              /\ i > 1 /\ trace[i - 1].fn = "disable_datasets_caching"
    /\ pc = "loader_running" <=>
          (\E l \in Loaders : Called(l) /\ ~Returned(l) /\ ~Raised(l))

\* a loader executing in a run that started with caching enabled
C16_Witness ==
    /\ pc = "loader_running"
    /\ trace[IndexOf("disable_datasets_caching")].caching = TRUE
    /\ ~datasets_caching

----------------------------------------------------------------------------
\* step 4 is over
DefaultOver ==
    /\ Returned("parse_args_into_dataclasses")
    /\ pc \notin { "register_template", "default_path" }
    /\ ~(pc = "raised" /\ exc \in RegisterFns)

\* C17: after the default fill-in dataset_prepared_path keeps one value to
\* the end of the run: the supplied path when there was one (and then no
\* warning is logged), the default otherwise; the success report names the
\* path the loader was invoked with.
C17_PreparedPathStable ==
    /\ DefaultOver =>
          parsed_cfg.dataset_prepared_path =
              IF config.dataset_prepared_path # <<>>
              THEN config.dataset_prepared_path
              ELSE DEFAULT_DATASET_PREPARED_PATH
    /\ config.dataset_prepared_path # <<>> => ~Called("LOG.warning")
    /\ \A i, j \in 1..Len(trace) :
          (trace[i].fn \in Loaders /\ trace[j].msg = "Success!") =>
              trace[j].arg = <<trace[i].cfg.dataset_prepared_path>>

\* a finished run with a supplied path
C17_Witness ==
    /\ pc = "done"
    /\ config.dataset_prepared_path = <<"p">>
    /\ parsed_cfg.dataset_prepared_path = <<"p">>

----------------------------------------------------------------------------
\* C18: after the loader has returned, on either branch, the conversion
\* guard reads datasets[0]; with an empty datasets sequence the run
\* therefore fails at the guard, after materialization has completed,
\* without invoking the probe or emitting the success report.
C18_EmptyDatasetsFail ==
    /\ pc = "convert_guard" =>
          /\ GuardReadsFirst(parsed_cfg)
          /\ \E l \in Loaders : Returned(l)
    /\ (CfgBound /\ config.datasets = <<>>
          /\ \E l \in Loaders : Returned(l)) =>
              /\ pc \in { "convert_guard", "raised" }
              /\ pc = "convert_guard" =>
                    /\ ENABLED ConvertGuardRaises
                    /\ ~ENABLED ConvertSkipped
                    /\ ~ENABLED InvokeConvert
              /\ pc = "raised" => exc = "datasets[0]"
              /\ ~Called(Probe)
              /\ ~Called(Convert)
              /\ ~SuccessReported

\* the guard failed on the rl branch
C18_Witness ==
    /\ exc = "datasets[0]"
    /\ Returned("load_rl_datasets")
    /\ config.datasets = <<>>

----------------------------------------------------------------------------
\* C19: dataset_file is assigned only when convert has returned, and then
\* holds the target path that was passed to convert; when the conversion is
\* not triggered or convert raises it keeps the value load_cfg gave it; the
\* datasets sequence (so datasets[0].path) is never written.
C19_DatasetFile ==
    CfgBound =>
        /\ parsed_cfg.datasets = config.datasets
        /\ IF Returned(Convert)
           THEN parsed_cfg.dataset_file = trace[IndexOf(Convert)].arg[2]
           ELSE parsed_cfg.dataset_file = config.dataset_file
        /\ Returned(Convert) => Count(Convert) = 1

\* convert returned and dataset_file names the artifact
C19_Witness ==
    /\ Returned(Convert)
    /\ parsed_cfg.dataset_file # <<>>
    /\ parsed_cfg.datasets[1].path = <<"d", "/", "a", ".", "c", "s", "v">>

----------------------------------------------------------------------------
\* C12: when convert returns for a valid table with N data rows, the
\* target file has exactly N lines, the i-th being the JSON object of the
\* i-th data row keyed by the header's column names, with no blank line and
\* no partial line.
C12_OneLinePerRow ==
    conv_pc = "returned" =>
        /\ target.exists
        /\ Len(target.lines) = Len(source.rows)
        /\ \A i \in 1..Len(source.rows) :
              /\ Len(target.lines[i]) = Len(source.header)
              /\ target.lines[i] # <<>>
              /\ \A k \in 1..Len(source.header) :
                    target.lines[i][k] = <<source.header[k], source.rows[i][k]>>

\* convert returned for a two-column table with two different rows
C12_Witness ==
    /\ conv_pc = "returned"
    /\ source.header = <<"prompt", "response">>
    /\ Len(source.rows) = 2
    /\ source.rows[1] # source.rows[2]
    /\ Len(target.lines) = 2

\* C13: when convert fails, at whatever point, no target file is visible
\* and no parent directory has been created; the target file and its parent
\* directory come into being only when convert returns.
C13_AllOrNothing ==
    /\ conv_pc = "failed" => ~target.exists /\ dirs # "created"
    /\ (target.exists \/ dirs = "created") => conv_pc = "returned"

\* convert failed after it had already produced a line
C13_Witness ==
    /\ conv_pc = "failed"
    /\ Len(written) >= 1
    /\ Len(written) < Len(source.rows)
    /\ ~target.exists

\* the function that registers a template
RegisterFnOf(t) ==
    IF t = "chatml" THEN "register_chatml_template" ELSE "register_llama3_template"

\* C15: after a run with chat_template "chatml" and a default system
\* message m the registry resolves chatml to m; the same holds for llama3,
\* and without a message the template resolves to its built-in message.
\* Registering again with the same arguments leaves the registry in the same
\* state and raises nothing.
C15_RegistrationIdempotent ==
    \A t \in Templates :
        /\ Returned(RegisterFnOf(t)) =>
              /\ config.chat_template = t
              /\ registry[t].registered
              /\ registry[t].system_message =
                    IF config.default_system_message # <<>>
                    THEN config.default_system_message
                    ELSE BuiltinSystemMessage
              /\ \A u \in Templates \ {t} : ~registry[u].registered
        /\ Count(RegisterFnOf(t)) >= 2 =>
              /\ Returned(RegisterFnOf(t))
              /\ ~Raised(RegisterFnOf(t))
              /\ exc # RegisterFnOf(t)

\* chatml registered twice with the message m
C15_Witness ==
    /\ Count("register_chatml_template") = 2
    /\ config.default_system_message = <<"m">>
    /\ registry["chatml"].system_message = <<"m">>

====
